---- MODULE Spec2Model ----
(***************************************************************************)
(* Model of the training driver retinanet/train.py (function train) and of *)
(* retinanet/augmentations.py (function create_augmentations).             *)
(*                                                                         *)
(* train is run by `world` processes, rank 0 being the master.  Every      *)
(* process runs the same code on the same arguments; the processes meet   *)
(* only in torch.distributed.all_reduce, a collective that returns once    *)
(* every rank has entered it.  Code between two collectives is local to a  *)
(* process, so it is modelled by one action per block of the loop body.    *)
(*                                                                         *)
(* Tensor values are exact rationals [n, d]; d = 0 is a non-finite value.  *)
(***************************************************************************)
EXTENDS Integers, Sequences, FiniteSets, TLC

(* ------------------------------ bounds -------------------------------- *)
MaxIter == 3
MaxStart == 1
MaxValIter == 2
MaxBatches == 2
MaxValBatches == 1
MaxWorld == 2
MaxCfgLen == 3
MaxCalls == 2

(* --------------------------- tensor values ---------------------------- *)
RECURSIVE GCD(_, _)
GCD(a, b) == IF b = 0 THEN a ELSE GCD(b, a % b)

Inf == [n |-> 1, d |-> 0]
NoTensor == [n |-> 0, d |-> 0]
R(k) == [n |-> k, d |-> 1]

Norm(n, d) ==
    IF d = 0 THEN Inf
    ELSE LET g == GCD(n, d) IN [n |-> n \div g, d |-> d \div g]

isfinite(x) == x.d # 0

Add(x, y) ==
    IF x.d = 0 \/ y.d = 0 THEN Inf
    ELSE Norm(x.n * y.d + y.n * x.d, x.d * y.d)

Div(x, k) == IF x.d = 0 THEN Inf ELSE Norm(x.n, x.d * k)

RECURSIVE SumSeq(_)
SumSeq(s) == IF s = <<>> THEN R(0) ELSE Add(Head(s), SumSeq(Tail(s)))

StackMean(s) == Div(SumSeq(s), Len(s))

TrainClsVals == {R(1), Inf}
TrainBoxVals == {R(2)}
ValClsVals == {R(1)}
ValBoxVals == {R(2)}

(* ------------------------ create_augmentations ------------------------ *)
AlbumentationsAttrs == {"HorizontalFlip", "RandomCrop"}
EmptyDict == [k \in {} |-> 0]
Del(dict, key) == [k \in (DOMAIN dict) \ {key} |-> dict[k]]

EntryVals ==
    {[name |-> "HorizontalFlip", p |-> 1],
     [name |-> "RandomCrop", p |-> 1],
     [name |-> "Bogus", p |-> 1],
     [t \in {"p"} |-> 1]}

RECURSIVE SeqsUpTo(_, _)
SeqsUpTo(S, k) ==
    IF k = 0 THEN {<<>>}
    ELSE LET T == SeqsUpTo(S, k - 1)
         IN T \cup {Append(t, e) : t \in {u \in T : Len(u) = k - 1}, e \in S}

(* The for loop of create_augmentations from entry k on: transforms built   *)
(* so far are in built, cfg is the (mutated) config list.                   *)
RECURSIVE AugLoop(_, _, _)
AugLoop(cfg, k, built) ==
    IF k > Len(cfg) THEN [outcome |-> "Compose", transforms |-> built, cfg |-> cfg]
    ELSE IF "name" \notin DOMAIN cfg[k]
         THEN [outcome |-> "KeyError", transforms |-> <<>>, cfg |-> cfg]
    ELSE IF cfg[k]["name"] \notin AlbumentationsAttrs
         THEN [outcome |-> "exit1", transforms |-> <<>>, cfg |-> cfg]
    ELSE LET kwargs == Del(cfg[k], "name")
         IN AugLoop([cfg EXCEPT ![k] = kwargs], k + 1,
                    Append(built, [class |-> cfg[k]["name"], kwargs |-> kwargs]))

(* create_augmentations with the unknown names skipped instead of exit(1). *)
RECURSIVE AugLoopSkip(_, _, _)
AugLoopSkip(cfg, k, built) ==
    IF k > Len(cfg) THEN [outcome |-> "Compose", transforms |-> built, cfg |-> cfg]
    ELSE IF "name" \notin DOMAIN cfg[k]
         THEN [outcome |-> "KeyError", transforms |-> <<>>, cfg |-> cfg]
    ELSE IF cfg[k]["name"] \notin AlbumentationsAttrs
         THEN AugLoopSkip(cfg, k + 1, built)
    ELSE LET kwargs == Del(cfg[k], "name")
         IN AugLoopSkip([cfg EXCEPT ![k] = kwargs], k + 1,
                        Append(built, [class |-> cfg[k]["name"], kwargs |-> kwargs]))

create_augmentations_skip(cfg) ==
    IF Len(cfg) = 0
    THEN [outcome |-> "None", transforms |-> <<>>, cfg |-> cfg]
    ELSE AugLoopSkip(cfg, 1, <<>>)

create_augmentations(cfg) ==
    IF Len(cfg) = 0
    THEN [outcome |-> "None", transforms |-> <<>>, cfg |-> cfg]
    ELSE AugLoop(cfg, 1, <<>>)

(* ------------------------------- state -------------------------------- *)
VARIABLES
    (* arguments of train, the same for every rank *)
    iterations, val_iterations, val_annotations, world, logdir, metrics_url,
    augs_cfg,
    (* batches one pass of data_iterator / val_iterator yields *)
    n_batches, n_val_batches,
    (* per rank: control *)
    pc, err,
    (* per rank: locals of train *)
    state, optimizer, scheduler, iteration, es, i,
    cls_losses, box_losses, cls_loss, box_loss,
    val_cls_losses, val_box_losses, val_cls_loss, val_box_loss, vi,
    (* per rank: record of the calls made *)
    steps, start, val_at, saved, es_arg, sched_arg,
    (* per rank: the gradient buffers, and what optimizer.step last used *)
    grads, step_grads,
    (* per rank: the latest logging point and post_metrics call *)
    log_at, posted,
    (* create_augmentations called directly *)
    transforms_config, aug_arg, aug_prev, aug_result, aug_calls

targs == <<iterations, val_iterations, val_annotations, world, logdir,
           metrics_url, augs_cfg, n_batches, n_val_batches>>
tctl == <<pc, err>>
tlocals == <<state, optimizer, scheduler, iteration, es, i>>
ttrain == <<cls_losses, box_losses, cls_loss, box_loss>>
tval == <<val_cls_losses, val_box_losses, val_cls_loss, val_box_loss, vi>>
tlog == <<steps, start, val_at, saved, es_arg, sched_arg>>
tgrad == <<grads, step_grads>>
tpost == <<log_at, posted>>
taug == <<transforms_config, aug_arg, aug_prev, aug_result, aug_calls>>
vars == <<targs, tctl, tlocals, ttrain, tval, tlog, tgrad, tpost, taug>>

Procs == 0 .. (MaxWorld - 1)
Ranks == 0 .. (world - 1)
is_master(p) == p = 0

NotSaved == [at |-> -1, opt |-> -1, state |-> EmptyDict]
NoGrads == [train |-> 0, val |-> 0, zeroed |-> 0]
NotPosted == [at |-> -1, total |-> NoTensor]
NoAugResult == [outcome |-> "none yet", transforms |-> <<>>, cfg |-> <<>>]

(* The state dictionary handed to train: empty, or what the state.update   *)
(* of an earlier run left in it (lines 151-155): its iteration counter,    *)
(* its optimizer state and its scheduler state, the latter fresh or as     *)
(* left by a scheduler.step of a validation pass (line 195).               *)
WrittenSchedulers == {NoTensor} \cup {Add(c, b) : c \in ValClsVals, b \in ValBoxVals}

InitStates ==
    {EmptyDict} \cup
    {[iteration |-> k, optimizer |-> k, scheduler |-> m] :
         k \in 1 .. MaxStart, m \in WrittenSchedulers}

(* The augmentation configs train is run on: empty, one known transform,   *)
(* one unknown name.                                                        *)
TrainAugs ==
    {<<>>, <<[name |-> "HorizontalFlip", p |-> 1]>>, <<[name |-> "Bogus", p |-> 1]>>}

GoodAugs(cfg) == create_augmentations(cfg).outcome = "Compose"

(* A call that fails while it builds the augmentations never reads the     *)
(* loop arguments, and val_iterations and the validation iterator are read *)
(* only when val_annotations is given: those arguments are then fixed.     *)
InitArgs ==
    /\ augs_cfg \in TrainAugs
    /\ world \in 1 .. MaxWorld
    /\ iterations \in (IF GoodAugs(augs_cfg) THEN 0 .. MaxIter ELSE {1})
    /\ val_annotations \in (IF GoodAugs(augs_cfg) THEN BOOLEAN ELSE {FALSE})
    /\ val_iterations \in (IF val_annotations THEN 0 .. MaxValIter ELSE {1})
    /\ n_val_batches \in (IF val_annotations THEN 0 .. MaxValBatches ELSE {0})
    /\ n_batches \in (IF GoodAugs(augs_cfg) THEN 0 .. MaxBatches ELSE {1})
    /\ logdir \in (IF GoodAugs(augs_cfg) THEN BOOLEAN ELSE {FALSE})
    /\ metrics_url \in (IF GoodAugs(augs_cfg) THEN BOOLEAN ELSE {FALSE})

InitLocals ==
    /\ err = [p \in Procs |-> "none"]
    /\ optimizer = [p \in Procs |-> 0]
    /\ scheduler = [p \in Procs |-> NoTensor]
    /\ iteration = [p \in Procs |-> 0]
    /\ es = [p \in Procs |-> [early_stop |-> FALSE]]
    /\ i = [p \in Procs |-> 0]
    /\ cls_losses = [p \in Procs |-> <<>>]
    /\ box_losses = [p \in Procs |-> <<>>]
    /\ cls_loss = [p \in Procs |-> NoTensor]
    /\ box_loss = [p \in Procs |-> NoTensor]
    /\ val_cls_losses = [p \in Procs |-> <<>>]
    /\ val_box_losses = [p \in Procs |-> <<>>]
    /\ val_cls_loss = [p \in Procs |-> NoTensor]
    /\ val_box_loss = [p \in Procs |-> NoTensor]
    /\ vi = [p \in Procs |-> 0]
    /\ steps = [p \in Procs |-> 0]
    /\ start = [p \in Procs |-> 0]
    /\ val_at = [p \in Procs |-> -1]
    /\ saved = [p \in Procs |-> NotSaved]
    /\ es_arg = [p \in Procs |-> NoTensor]
    /\ sched_arg = [p \in Procs |-> NoTensor]
    /\ grads = [p \in Procs |-> NoGrads]
    /\ step_grads = [p \in Procs |-> NoGrads]
    /\ log_at = [p \in Procs |-> -1]
    /\ posted = [p \in Procs |-> NotPosted]

Init ==
    /\ InitArgs
    /\ InitLocals
    /\ \E s0 \in (IF GoodAugs(augs_cfg) THEN InitStates ELSE {EmptyDict}) :
           state = [p \in Procs |-> s0]
    /\ pc = [p \in Procs |-> IF p < world THEN "setup" ELSE "off"]
    /\ transforms_config = <<>>
    /\ aug_arg = <<>>
    /\ aug_prev = NoAugResult
    /\ aug_result = NoAugResult
    /\ aug_calls = 0

(* ------------------------------- train -------------------------------- *)
Error(p, what) ==
    /\ pc' = [pc EXCEPT ![p] = "error"]
    /\ err' = [err EXCEPT ![p] = what]

Goto(p, where) ==
    /\ pc' = [pc EXCEPT ![p] = where]
    /\ UNCHANGED err

(* Lines 23-79: optimizer, scheduler, augmentations, iterators, the        *)
(* starting iteration and the early-stopping monitor.                      *)
Setup(p) ==
    /\ pc[p] = "setup"
    /\ optimizer' = [optimizer EXCEPT ![p] =
           IF "optimizer" \in DOMAIN state[p] THEN state[p]["optimizer"] ELSE 0]
    /\ scheduler' = [scheduler EXCEPT ![p] = NoTensor]
    /\ LET r == create_augmentations(augs_cfg)
       IN CASE r.outcome = "exit1" ->
                   /\ Error(p, "SystemExit(1)")
                   /\ UNCHANGED <<iteration, start, es>>
            [] r.outcome = "KeyError" ->
                   /\ Error(p, "KeyError")
                   /\ UNCHANGED <<iteration, start, es>>
            [] r.outcome = "None" ->
                   (* line 56: for t in None *)
                   /\ Error(p, "TypeError")
                   /\ UNCHANGED <<iteration, start, es>>
            [] OTHER ->
                   /\ Goto(p, "while")
                   /\ iteration' = [iteration EXCEPT ![p] =
                          IF "iteration" \in DOMAIN state[p]
                          THEN state[p]["iteration"] ELSE 0]
                   /\ start' = [start EXCEPT ![p] = iteration'[p]]
                   /\ es' = [es EXCEPT ![p] = [early_stop |-> FALSE]]
    /\ UNCHANGED <<targs, state, i, ttrain, tval, steps, val_at, saved,
                   es_arg, sched_arg, tgrad, tpost, taug>>

(* Line 81: the condition of the while loop. *)
WhileCond(p) == iteration[p] < iterations /\ ~es[p].early_stop

(* Lines 81-82: test the while condition, start a pass of data_iterator. *)
WhileTest(p) ==
    /\ pc[p] = "while"
    /\ IF WhileCond(p)
       THEN /\ cls_losses' = [cls_losses EXCEPT ![p] = <<>>]
            /\ box_losses' = [box_losses EXCEPT ![p] = <<>>]
            /\ i' = [i EXCEPT ![p] = 0]
            /\ Goto(p, "for")
       ELSE /\ Goto(p, "close")
            /\ UNCHANGED <<cls_losses, box_losses, i>>
    /\ UNCHANGED <<targs, state, optimizer, scheduler, iteration, es,
                   cls_loss, box_loss, tval, tlog, tgrad, tpost, taug>>

(* The gradient buffers: how many training and validation backward calls   *)
(* have accumulated in them since they were last zeroed, and how many      *)
(* zero_grad calls there were since the last optimizer.step.               *)
(* optimizer.zero_grad() left out. *)
ZeroGrad_omitted(g) == g

(* Line 88: optimizer.zero_grad(). *)
ZeroGrad(g) == [train |-> 0, val |-> 0, zeroed |-> g.zeroed + 1]

(* Lines 96 and 168: scaled_loss.backward() adds to the buffers. *)
Backward(g, pass) ==
    IF pass = "train" THEN [g EXCEPT !.train = @ + 1]
    ELSE [g EXCEPT !.val = @ + 1]

(* Line 97: optimizer.step() uses the buffers and leaves them as they are. *)
AfterStep(g) == [g EXCEPT !.zeroed = 0]

(* Lines 83-100: take the next batch; zero_grad, forward, backward,        *)
(* optimizer.step; the local losses are whatever the model computes.       *)
ForNext(p) ==
    /\ pc[p] = "for"
    /\ IF i[p] < n_batches
       THEN /\ \E c \in TrainClsVals, b \in TrainBoxVals :
                   /\ cls_loss' = [cls_loss EXCEPT ![p] = c]
                   /\ box_loss' = [box_loss EXCEPT ![p] = b]
            /\ i' = [i EXCEPT ![p] = @ + 1]
            /\ LET g == Backward(ZeroGrad(grads[p]), "train")
               IN /\ step_grads' = [step_grads EXCEPT ![p] = g]
                  /\ grads' = [grads EXCEPT ![p] = AfterStep(g)]
            /\ optimizer' = [optimizer EXCEPT ![p] = @ + 1]
            /\ steps' = [steps EXCEPT ![p] = @ + 1]
            /\ Goto(p, IF world > 1 THEN "ar_cls" ELSE "guard")
       ELSE /\ Goto(p, "while")
            /\ UNCHANGED <<cls_loss, box_loss, i, optimizer, steps, tgrad>>
    /\ UNCHANGED <<targs, state, scheduler, iteration, es, cls_losses,
                   box_losses, tval, start, val_at, saved, es_arg, sched_arg,
                   tpost, taug>>

(* torch.distributed.all_reduce (lines 102, 103, 172, 173): returns on     *)
(* every rank, with the sum, once all ranks have entered a collective.     *)
(* Collectives are matched by order, whatever the call site.  (The         *)
(* gradient reduction DistributedDataParallel does inside backward is left *)
(* to the library.)                                                        *)
ARpcs == {"ar_cls", "ar_box", "val_ar_cls", "val_ar_box"}

Pending(p) ==
    CASE pc[p] = "ar_cls" -> cls_loss[p]
      [] pc[p] = "ar_box" -> box_loss[p]
      [] pc[p] = "val_ar_cls" -> val_cls_loss[p]
      [] pc[p] = "val_ar_box" -> val_box_loss[p]

AfterAR(where) ==
    CASE where = "ar_cls" -> "ar_box"
      [] where = "ar_box" -> "guard"
      [] where = "val_ar_cls" -> "val_ar_box"
      [] where = "val_ar_box" -> "val_append"

RECURSIVE SumRanks(_)
SumRanks(k) == IF k < 0 THEN R(0) ELSE Add(Pending(k), SumRanks(k - 1))

Reduced(f, where, total) ==
    [p \in Procs |-> IF p \in Ranks /\ pc[p] = where THEN total ELSE f[p]]

AllReduce ==
    /\ world > 1
    /\ \A p \in Ranks : pc[p] \in ARpcs
    /\ LET total == SumRanks(world - 1)
       IN /\ cls_loss' = Reduced(cls_loss, "ar_cls", total)
          /\ box_loss' = Reduced(box_loss, "ar_box", total)
          /\ val_cls_loss' = Reduced(val_cls_loss, "val_ar_cls", total)
          /\ val_box_loss' = Reduced(val_box_loss, "val_ar_box", total)
    /\ pc' = [p \in Procs |-> IF p \in Ranks THEN AfterAR(pc[p]) ELSE pc[p]]
    /\ UNCHANGED <<targs, err, tlocals, cls_losses, box_losses,
                   val_cls_losses, val_box_losses, vi, tlog, tgrad, tpost,
                   taug>>

(* Lines 104-105 (and 174-175): the mean over the ranks. *)
OverWorld(x) == IF world > 1 THEN Div(x, world) ELSE x

(* The diverging-loss test with the "not" lost. *)
Diverging_inverted(p, c, b) == is_master(p) /\ isfinite(Add(c, b))

(* Line 110: the diverging-loss test. *)
Diverging(p, c, b) == is_master(p) /\ ~isfinite(Add(c, b))

(* Lines 104-112: divide, collect on the master, raise on a non-finite     *)
(* loss.                                                                   *)
Guard(p) ==
    /\ pc[p] = "guard"
    /\ LET c == OverWorld(cls_loss[p])
           b == OverWorld(box_loss[p])
       IN /\ cls_loss' = [cls_loss EXCEPT ![p] = c]
          /\ box_loss' = [box_loss EXCEPT ![p] = b]
          /\ cls_losses' = [cls_losses EXCEPT ![p] =
                 IF is_master(p) THEN Append(@, c) ELSE @]
          /\ box_losses' = [box_losses EXCEPT ![p] =
                 IF is_master(p) THEN Append(@, b) ELSE @]
          /\ IF Diverging(p, c, b)
             THEN Error(p, "RuntimeError: Loss is diverging")
             ELSE Goto(p, "bump")
    /\ UNCHANGED <<targs, tlocals, tval, tlog, tgrad, tpost, taug>>

(* Line 119: a logging point; elapsed stands for                           *)
(* profiler.totals['train'] > 60.                                          *)
LogPoint(p, elapsed, it) == is_master(p) /\ (elapsed \/ it = iterations)

(* Lines 151-155: state.update(...). *)
StateUpdate(p, it) ==
    [k \in DOMAIN state[p] \cup {"iteration", "optimizer", "scheduler"} |->
        CASE k = "iteration" -> it
          [] k = "optimizer" -> optimizer[p]
          [] k = "scheduler" -> scheduler[p]
          [] OTHER -> state[p][k]]

(* Line 160: is a validation pass due at iteration it?  (val_iterations    *)
(* is not 0 where this is evaluated.)                                      *)
ValidationDue(it) ==
    val_annotations /\ (it = iterations \/ it % val_iterations = 0)

(* Line 160: it % val_iterations is evaluated, and raises, when            *)
(* val_iterations is 0.                                                    *)
ModuloByZero(it) == val_annotations /\ it # iterations /\ val_iterations = 0

(* The break of line 209 without the early-stop test. *)
LeaveLoop_no_early_stop(it, early_stop) == it = iterations

(* The break of line 209 without the test of the iteration budget. *)
LeaveLoop_no_budget(it, early_stop) == early_stop

(* Line 209: the condition of the break. *)
LeaveLoop(it, early_stop) == it = iterations \/ early_stop

(* Lines 209-210: break out of the for loop (to the while test of line     *)
(* 81), or go on with the next batch.                                      *)
Break(p, it, early_stop) ==
    Goto(p, IF LeaveLoop(it, early_stop) THEN "while" ELSE "for")

(* Lines 160-162 and, when no validation pass is due, 209-210. *)
ValCheck(p, it) ==
    IF ModuloByZero(it)
    THEN /\ Error(p, "ZeroDivisionError")
         /\ UNCHANGED <<val_cls_losses, val_box_losses, vi, val_at>>
    ELSE IF ValidationDue(it)
    THEN /\ Goto(p, "val_for")
         /\ val_cls_losses' = [val_cls_losses EXCEPT ![p] = <<>>]
         /\ val_box_losses' = [val_box_losses EXCEPT ![p] = <<>>]
         /\ vi' = [vi EXCEPT ![p] = 0]
         /\ val_at' = [val_at EXCEPT ![p] = it]
    ELSE /\ Break(p, it, es[p].early_stop)
         /\ UNCHANGED <<val_cls_losses, val_box_losses, vi, val_at>>

(* Line 145: the 'total loss' handed to post_metrics. *)
PostedTotal(focal, box) == Add(focal, box)

(* Lines 114-162: count the iteration; at a logging point compute the      *)
(* interval's losses, write them out, update state, reset the lists; then  *)
(* the validation test.  Line 139 deletes focal_loss and box_loss when     *)
(* logdir is set, and line 145 reads them when metrics_url is set.         *)
(* post_metrics and the writer are taken to return.                        *)
Bump(p) ==
    /\ pc[p] = "bump"
    /\ cls_loss' = [cls_loss EXCEPT ![p] = NoTensor]
    /\ iteration' = [iteration EXCEPT ![p] = @ + 1]
    /\ \E elapsed \in BOOLEAN :
          IF LogPoint(p, elapsed, iteration'[p])
          THEN /\ log_at' = [log_at EXCEPT ![p] = iteration'[p]]
               /\ IF logdir /\ metrics_url
                  THEN /\ Error(p, "UnboundLocalError")
                       /\ box_loss' = [box_loss EXCEPT ![p] = NoTensor]
                       /\ UNCHANGED <<state, cls_losses, box_losses, posted,
                                      val_cls_losses, val_box_losses, vi,
                                      val_at>>
                  ELSE /\ box_loss' = [box_loss EXCEPT ![p] =
                              IF logdir THEN NoTensor
                              ELSE StackMean(box_losses[p])]
                       /\ posted' = [posted EXCEPT ![p] =
                              IF metrics_url
                              THEN [at |-> iteration'[p],
                                    total |-> PostedTotal(
                                        StackMean(cls_losses[p]),
                                        StackMean(box_losses[p]))]
                              ELSE @]
                       /\ state' = [state EXCEPT ![p] =
                              StateUpdate(p, iteration'[p])]
                       /\ cls_losses' = [cls_losses EXCEPT ![p] = <<>>]
                       /\ box_losses' = [box_losses EXCEPT ![p] = <<>>]
                       /\ ValCheck(p, iteration'[p])
          ELSE /\ box_loss' = [box_loss EXCEPT ![p] = NoTensor]
               /\ UNCHANGED <<state, cls_losses, box_losses, tpost>>
               /\ ValCheck(p, iteration'[p])
    /\ UNCHANGED <<targs, optimizer, scheduler, es, i, val_cls_loss,
                   val_box_loss, steps, start, saved, es_arg, sched_arg,
                   tgrad, taug>>

(* Lines 163-170: the next validation batch: forward, backward. *)
ValNext(p) ==
    /\ pc[p] = "val_for"
    /\ IF vi[p] < n_val_batches
       THEN /\ \E c \in ValClsVals, b \in ValBoxVals :
                   /\ val_cls_loss' = [val_cls_loss EXCEPT ![p] = c]
                   /\ val_box_loss' = [val_box_loss EXCEPT ![p] = b]
            /\ vi' = [vi EXCEPT ![p] = @ + 1]
            /\ grads' = [grads EXCEPT ![p] = Backward(@, "val")]
            /\ Goto(p, IF world > 1 THEN "val_ar_cls" ELSE "val_append")
       ELSE /\ Goto(p, "val_end")
            /\ UNCHANGED <<val_cls_loss, val_box_loss, vi, grads>>
    /\ UNCHANGED <<targs, tlocals, ttrain, val_cls_losses, val_box_losses,
                   tlog, step_grads, tpost, taug>>

(* Lines 174-178: divide, collect on the master. *)
ValAppend(p) ==
    /\ pc[p] = "val_append"
    /\ LET c == OverWorld(val_cls_loss[p])
           b == OverWorld(val_box_loss[p])
       IN /\ val_cls_loss' = [val_cls_loss EXCEPT ![p] = c]
          /\ val_box_loss' = [val_box_loss EXCEPT ![p] = b]
          /\ val_cls_losses' = [val_cls_losses EXCEPT ![p] =
                 IF is_master(p) THEN Append(@, c) ELSE @]
          /\ val_box_losses' = [val_box_losses EXCEPT ![p] =
                 IF is_master(p) THEN Append(@, b) ELSE @]
    /\ Goto(p, "val_for")
    /\ UNCHANGED <<targs, tlocals, ttrain, vi, tlog, tgrad, tpost, taug>>

(* Line 194: the value handed to the early-stopping monitor. *)
EsMetric(val_focal_loss, val_bbox_loss) == Add(val_bbox_loss, val_bbox_loss)

(* Line 195: the value handed to scheduler.step. *)
SchedulerMetric(val_focal_loss, val_bbox_loss) == Add(val_focal_loss, val_bbox_loss)

(* EarlyStopping.__call__: the monitor may set early_stop on any call and  *)
(* never clears it.                                                        *)
EsCall(e, metric, stop) == [early_stop |-> e.early_stop \/ stop]

(* Lines 180-210: the validation losses (torch.stack of an empty list      *)
(* raises), the monitor, the scheduler, nn_model.save(state), the break.   *)
(* infer (line 201) is taken to return.  saved[p] records the iteration    *)
(* counter, the optimizer and the state dictionary at the save.            *)
ValEnd(p) ==
    /\ pc[p] = "val_end"
    /\ IF val_cls_losses[p] = <<>>
       THEN /\ Error(p, "RuntimeError: stack expects a non-empty TensorList")
            /\ UNCHANGED <<es, scheduler, es_arg, sched_arg, saved,
                           val_cls_losses, val_box_losses, val_cls_loss,
                           val_box_loss>>
       ELSE LET val_focal_loss == StackMean(val_cls_losses[p])
                val_bbox_loss == StackMean(val_box_losses[p])
            IN /\ es_arg' = [es_arg EXCEPT ![p] =
                      EsMetric(val_focal_loss, val_bbox_loss)]
               /\ \E stop \in BOOLEAN :
                      es' = [es EXCEPT ![p] = EsCall(@, es_arg'[p], stop)]
               /\ sched_arg' = [sched_arg EXCEPT ![p] =
                      SchedulerMetric(val_focal_loss, val_bbox_loss)]
               /\ scheduler' = [scheduler EXCEPT ![p] = sched_arg'[p]]
               /\ val_cls_loss' = [val_cls_loss EXCEPT ![p] = NoTensor]
               /\ val_box_loss' = [val_box_loss EXCEPT ![p] = NoTensor]
               /\ val_cls_losses' = [val_cls_losses EXCEPT ![p] = <<>>]
               /\ val_box_losses' = [val_box_losses EXCEPT ![p] = <<>>]
               /\ saved' = [saved EXCEPT ![p] =
                      [at |-> iteration[p], opt |-> optimizer[p],
                       state |-> state[p]]]
               /\ Break(p, iteration[p], es'[p].early_stop)
    /\ UNCHANGED <<targs, state, optimizer, iteration, i, ttrain, vi,
                   steps, start, val_at, tgrad, tpost, taug>>

(* Lines 212-213: close the writer, return. *)
Close(p) ==
    /\ pc[p] = "close"
    /\ Goto(p, "done")
    /\ UNCHANGED <<targs, tlocals, ttrain, tval, tlog, tgrad, tpost, taug>>

Step(p) ==
    \/ Setup(p)
    \/ WhileTest(p)
    \/ ForNext(p)
    \/ Guard(p)
    \/ Bump(p)
    \/ ValNext(p)
    \/ ValAppend(p)
    \/ ValEnd(p)
    \/ Close(p)

Next == AllReduce \/ \E p \in Procs : Step(p)

Spec == Init /\ [][Next]_vars

(* ------------------ create_augmentations on its own ------------------- *)
(* A caller holds a config list and calls create_augmentations on it, up   *)
(* to MaxCalls times; exit(1) ends the process.  aug_arg is the list as it *)
(* was when the latest call was made, aug_prev what the call before the    *)
(* latest gave.                                                            *)
AugInit ==
    /\ transforms_config \in SeqsUpTo(EntryVals, MaxCfgLen)
    /\ aug_arg = <<>>
    /\ aug_prev = NoAugResult
    /\ aug_result = NoAugResult
    /\ aug_calls = 0
    /\ augs_cfg = <<>>
    /\ world = 1
    /\ iterations = 0
    /\ val_iterations = 1
    /\ val_annotations = FALSE
    /\ n_batches = 0
    /\ n_val_batches = 0
    /\ logdir = FALSE
    /\ metrics_url = FALSE
    /\ InitLocals
    /\ state = [p \in Procs |-> EmptyDict]
    /\ pc = [p \in Procs |-> "off"]

CallCreateAugmentations ==
    /\ aug_calls < MaxCalls
    /\ aug_result.outcome # "exit1"
    /\ LET r == create_augmentations(transforms_config)
       IN /\ aug_arg' = transforms_config
          /\ aug_prev' = aug_result
          /\ aug_result' = r
          /\ transforms_config' = r.cfg
    /\ aug_calls' = aug_calls + 1
    /\ UNCHANGED <<targs, tctl, tlocals, ttrain, tval, tlog, tgrad, tpost>>

AugNext == CallCreateAugmentations

AugSpec == AugInit /\ [][AugNext]_vars

(* Scheduling: a rank that can take a step of train takes it, and a       *)
(* collective that every rank has entered completes.                       *)
FairSpec ==
    /\ Init
    /\ [][Next]_vars
    /\ \A p \in Procs : WF_vars(Step(p))
    /\ WF_vars(AllReduce)

(* ----------------------------- properties ----------------------------- *)
Max(a, b) == IF a >= b THEN a ELSE b
Multiple(k, m) == IF m = 0 THEN k = 0 ELSE k % m = 0
Left(p) == pc[p] \in {"done", "error"}

(* C1: with val_annotations given, a validation pass runs after a training *)
(* step iff the iteration counter after the step is a multiple of          *)
(* val_iterations or equals iterations; without val_annotations no         *)
(* validation pass ever runs.  (val_at[p] is the iteration at which the    *)
(* latest validation pass of rank p started.)                              *)
C1_ValidationPeriodic ==
    \A p \in Ranks :
        /\ ~val_annotations => val_at[p] = -1
        /\ (val_annotations /\ iteration[p] > start[p] /\ pc[p] # "bump") =>
               ((val_at[p] = iteration[p]) <=>
                    (Multiple(iteration[p], val_iterations)
                        \/ iteration[p] = iterations))

(* C2: a call that reaches the final iteration without an error has saved  *)
(* a checkpoint at that iteration when it returns.                         *)
C2_FinalCheckpoint ==
    \A p \in Ranks :
        (pc[p] = "done" /\ steps[p] > 0 /\ iteration[p] = iterations) =>
            saved[p].at = iterations

(* C3: once the monitor has set early_stop (in a validation pass), the     *)
(* rank is never again inside the loop body: it is at the while test, at   *)
(* the close or has returned, and the checkpoint of that validation pass   *)
(* has been saved.                                                         *)
C3_EarlyStop ==
    \A p \in Ranks :
        es[p].early_stop =>
            /\ pc[p] \in {"while", "close", "done"}
            /\ val_at[p] = iteration[p]
            /\ saved[p].at = iteration[p]
            /\ steps[p] = iteration[p] - start[p]

C3_Witness ==
    \E p \in Ranks :
        /\ es[p].early_stop
        /\ pc[p] = "done"
        /\ iteration[p] < iterations
        /\ saved[p].at = iteration[p]

(* C4: on the master a non-finite reduced cls_loss + box_loss raises       *)
(* RuntimeError in the same step, with the iteration counter, state, the   *)
(* validation record and the checkpoint untouched, and nothing changes     *)
(* for that rank afterwards.                                               *)
C4_DivergingGuard ==
    [][\A p \in Ranks :
          /\ (/\ pc[p] = "guard"
              /\ pc'[p] # "guard"
              /\ is_master(p)
              /\ ~isfinite(Add(OverWorld(cls_loss[p]), OverWorld(box_loss[p]))))
             => /\ pc'[p] = "error"
                /\ err'[p] = "RuntimeError: Loss is diverging"
                /\ iteration'[p] = iteration[p]
                /\ state'[p] = state[p]
                /\ val_at'[p] = val_at[p]
                /\ saved'[p] = saved[p]
          /\ pc[p] = "error"
             => /\ pc'[p] = "error"
                /\ iteration'[p] = iteration[p]
                /\ state'[p] = state[p]
                /\ val_at'[p] = val_at[p]
                /\ saved'[p] = saved[p]
                /\ steps'[p] = steps[p]]_vars

C4_Witness ==
    \E p \in Ranks :
        /\ is_master(p)
        /\ pc[p] = "error"
        /\ err[p] = "RuntimeError: Loss is diverging"
        /\ iteration[p] > start[p]
        /\ ~isfinite(cls_loss[p])

(* C5: the iteration counter never exceeds max(iterations, starting        *)
(* iteration), and a call that returns without early stop has executed     *)
(* exactly max(0, iterations - starting iteration) optimizer steps.        *)
C5_IterationBudget ==
    \A p \in Ranks :
        /\ iteration[p] <= Max(iterations, start[p])
        /\ (pc[p] = "done" /\ ~es[p].early_stop) =>
               steps[p] = Max(0, iterations - start[p])

C5_Witness ==
    \E p \in Ranks :
        /\ pc[p] = "done"
        /\ ~es[p].early_stop
        /\ n_batches = 1
        /\ start[p] >= 1
        /\ steps[p] >= 2

(* C6: every call of train eventually leaves its training loop: it         *)
(* returns or raises.                                                      *)
C6_Terminates == <>(\A p \in Ranks : Left(p))

(* C7: no rank waits in an all_reduce that another rank, having raised or  *)
(* returned, never joins.                                                  *)
C7_CollectivesMatch ==
    \A p, q \in Ranks : ~(pc[p] \in ARpcs /\ Left(q))

(* C8: a call of create_augmentations that meets an entry whose name is    *)
(* no attribute of albumentations ends in exit(1), and a pipeline that is  *)
(* returned holds one transform per entry of the config, in order.         *)
MeetsUnknown(cfg) ==
    \E k \in 1 .. Len(cfg) :
        /\ "name" \in DOMAIN cfg[k]
        /\ cfg[k]["name"] \notin AlbumentationsAttrs
        /\ \A j \in 1 .. (k - 1) : "name" \in DOMAIN cfg[j]

C8_UnknownNameExits ==
    aug_calls > 0 =>
        /\ MeetsUnknown(aug_arg) => aug_result.outcome = "exit1"
        /\ aug_result.outcome = "Compose" =>
               /\ Len(aug_result.transforms) = Len(aug_arg)
               /\ \A k \in 1 .. Len(aug_arg) :
                      aug_result.transforms[k].class = aug_arg[k]["name"]

C8_Witness ==
    /\ aug_calls > 0
    /\ Len(aug_arg) >= 2
    /\ "name" \in DOMAIN aug_arg[2]
    /\ aug_arg[2]["name"] \notin AlbumentationsAttrs
    /\ aug_result.outcome = "exit1"

(* C9: in every validation pass the early-stopping monitor and             *)
(* scheduler.step are given the same value.                                *)
C9_SameMetric == \A p \in Ranks : es_arg[p] = sched_arg[p]

(* C10: whenever nn_model.save(state) is called, state['iteration'] is the *)
(* current iteration counter and state['optimizer'] the current optimizer  *)
(* state.                                                                  *)
C10_CheckpointFresh ==
    \A p \in Ranks :
        saved[p].at >= 0 =>
            /\ "iteration" \in DOMAIN saved[p].state
            /\ saved[p].state["iteration"] = saved[p].at
            /\ saved[p].state["optimizer"] = saved[p].opt

(* C11: a call of train on a state dictionary written by an earlier run    *)
(* starts from that run's iteration counter, optimizer state and scheduler *)
(* state.  (Before the first step of the call nothing has changed them.)   *)
C11_ResumeRoundTrip ==
    \A p \in Ranks :
        (/\ pc[p] \notin {"setup", "error"}
         /\ steps[p] = 0
         /\ DOMAIN state[p] = {"iteration", "optimizer", "scheduler"})
        => /\ iteration[p] = state[p]["iteration"]
           /\ optimizer[p] = state[p]["optimizer"]
           /\ scheduler[p] = state[p]["scheduler"]

(* C12: no optimizer.step happens inside a validation pass, and every      *)
(* optimizer.step uses gradient buffers that were zeroed exactly once      *)
(* since the step before and hold exactly one training backward and no     *)
(* validation backward.                                                    *)
ValPcs == {"val_for", "val_ar_cls", "val_ar_box", "val_append", "val_end"}

C12_ValidationDoesNotTrain ==
    \A p \in Ranks :
        /\ pc[p] \in ValPcs => steps[p] = iteration[p] - start[p]
        /\ steps[p] > 0 => step_grads[p] = [train |-> 1, val |-> 0, zeroed |-> 1]

C12_Witness ==
    \E p \in Ranks :
        /\ n_val_batches >= 1
        /\ saved[p].at >= 1
        /\ grads[p].val = 0
        /\ steps[p] > saved[p].at - start[p]
        /\ step_grads[p] = [train |-> 1, val |-> 0, zeroed |-> 1]

(* C13: at every logging point of the master, post_metrics is called when  *)
(* metrics_url is set, with 'total loss' the interval's focal loss + box   *)
(* loss, and the state update and the reset of the loss lists follow.      *)
C13_LoggingPoint ==
    [][\A p \in Ranks :
          log_at'[p] # log_at[p] =>
              /\ metrics_url =>
                     posted'[p] =
                         [at |-> iteration'[p],
                          total |-> Add(StackMean(cls_losses[p]),
                                        StackMean(box_losses[p]))]
              /\ "iteration" \in DOMAIN state'[p]
              /\ state'[p]["iteration"] = iteration'[p]
              /\ cls_losses'[p] = <<>>
              /\ box_losses'[p] = <<>>]_vars

(* C14: a call of create_augmentations leaves the config list as it was,   *)
(* and a second call on the same list gives what the first gave.           *)
C14_InputUnchanged ==
    /\ aug_calls > 0 => transforms_config = aug_arg
    /\ aug_calls > 1 => aug_result = aug_prev

(* C15: on an empty augmentation config create_augmentations returns None  *)
(* and train goes on into the training loop: setup does not raise.         *)
C15_EmptyConfig ==
    \A p \in Ranks :
        (augs_cfg = <<>> /\ pc[p] # "setup") =>
            /\ create_augmentations(augs_cfg).outcome = "None"
            /\ ~(pc[p] = "error" /\ steps[p] = 0)

====
